---- MODULE Spec2Model ----
(***************************************************************************)
(* Model of src/src/hydrogenase_processing/anchor_points.py: the anchor    *)
(* point pipeline for absorbance spectra (peak detection on the second     *)
(* derivative, peak widths, anchor point filtering, baseline spline).      *)
(*                                                                         *)
(* Wavenumbers are fixed-point numbers: the integer w stands for w/Scale.  *)
(* Python sequences are 0-based; At(s, i) reads the i-th item.             *)
(***************************************************************************)
EXTENDS Integers, Sequences, FiniteSets

\* ---------------------------------------------------------------- bounds
Scale == 2
MaxLen == 5
MaxY == 1
MaxRaw == 2
MaxWn == 3
MaxAbs == 1
MaxPeaks == 2
MaxWidth == 1
MaxAdj == 2
MaxRows == 3
MaxDegree == 3
MaxSmooth == 1

\* ------------------------------------------------------- python builtins
At(s, i) == s[i + 1]

PyAbs(v) == IF v < 0 THEN -v ELSE v

PyMin(a, b) == IF b < a THEN b ELSE a

PyMax(a, b) == IF b > a THEN b ELSE a

\* int(): truncation toward zero of the rational n / d, d > 0
PyInt(n, d) == IF n >= 0 THEN n \div d ELSE -((-n) \div d)

\* max() of a non-empty sequence
SeqMax(s) == CHOOSE m \in {s[i] : i \in DOMAIN s} : \A i \in DOMAIN s : s[i] <= m

SeqMin(s) == CHOOSE m \in {s[i] : i \in DOMAIN s} : \A i \in DOMAIN s : m <= s[i]

Range0(n) == [i \in 1..n |-> i - 1]

\* second_deriv[1] * -1
Upsidedown(d2y) == [i \in DOMAIN d2y |-> d2y[i] * (-1)]

\* ------------------------------------------------ scipy.signal.find_peaks
\* m is the midpoint of a plateau that is strictly higher than both its
\* neighbours; the first and the last sample are never peaks
IsLocalMaximum(x, m) ==
    \E l \in 1..(Len(x) - 2) : \E r \in l..(Len(x) - 2) :
        /\ \A k \in l..r : At(x, k) = At(x, l)
        /\ At(x, l - 1) < At(x, l)
        /\ At(x, r + 1) < At(x, r)
        /\ m = (l + r) \div 2

LocalMaxima(x) == SelectSeq(Range0(Len(x)), LAMBDA m : IsLocalMaximum(x, m))

RECURSIVE LeftBase(_, _, _, _, _)
LeftBase(x, peak, i, left_min, base) ==
    IF 0 <= i /\ At(x, i) <= At(x, peak)
    THEN IF At(x, i) < left_min
         THEN LeftBase(x, peak, i - 1, At(x, i), i)
         ELSE LeftBase(x, peak, i - 1, left_min, base)
    ELSE [min |-> left_min, base |-> base]

RECURSIVE RightBase(_, _, _, _, _)
RightBase(x, peak, i, right_min, base) ==
    IF i <= Len(x) - 1 /\ At(x, i) <= At(x, peak)
    THEN IF At(x, i) < right_min
         THEN RightBase(x, peak, i + 1, At(x, i), i)
         ELSE RightBase(x, peak, i + 1, right_min, base)
    ELSE [min |-> right_min, base |-> base]

PeakProminence(x, peak) ==
    LET l == LeftBase(x, peak, peak, At(x, peak), peak)
        r == RightBase(x, peak, peak, At(x, peak), peak)
    IN  [prominence |-> At(x, peak) - PyMax(l.min, r.min),
         left_base |-> l.base, right_base |-> r.base]

\* find_peaks(x, prominence=relative_height), relative_height = num / den
FindPeaks(x, num, den) ==
    SelectSeq(LocalMaxima(x),
              LAMBDA p : PeakProminence(x, p).prominence * den >= num)

\* ----------------------------------------------- scipy.signal.peak_widths
RECURSIVE WalkLeft(_, _, _, _)
WalkLeft(x, i, i_min, height) ==
    IF i_min < i /\ height < At(x, i) THEN WalkLeft(x, i - 1, i_min, height) ELSE i

RECURSIVE WalkRight(_, _, _, _)
WalkRight(x, i, i_max, height) ==
    IF i < i_max /\ height < At(x, i) THEN WalkRight(x, i + 1, i_max, height) ELSE i

\* an interpolated position is the rational num / den
LeftIp(x, peak) ==
    LET pr == PeakProminence(x, peak)
        height == At(x, peak) - pr.prominence
        i == WalkLeft(x, peak, pr.left_base, height)
    IN  IF At(x, i) < height
        THEN [num |-> i * (At(x, i + 1) - At(x, i)) + (height - At(x, i)),
              den |-> At(x, i + 1) - At(x, i)]
        ELSE [num |-> i, den |-> 1]

RightIp(x, peak) ==
    LET pr == PeakProminence(x, peak)
        height == At(x, peak) - pr.prominence
        i == WalkRight(x, peak, pr.right_base, height)
    IN  IF At(x, i) < height
        THEN [num |-> i * (At(x, i - 1) - At(x, i)) - (height - At(x, i)),
              den |-> At(x, i - 1) - At(x, i)]
        ELSE [num |-> i, den |-> 1]

\* peak_widths(x, peaks, rel_height=1): (widths, width_heights, left_ips, right_ips)
PeakWidths(x, peaks) ==
    <<[k \in DOMAIN peaks |->
          [num |-> RightIp(x, peaks[k]).num * LeftIp(x, peaks[k]).den
                   - LeftIp(x, peaks[k]).num * RightIp(x, peaks[k]).den,
           den |-> RightIp(x, peaks[k]).den * LeftIp(x, peaks[k]).den]],
      [k \in DOMAIN peaks |-> At(x, peaks[k]) - PeakProminence(x, peaks[k]).prominence],
      [k \in DOMAIN peaks |-> LeftIp(x, peaks[k])],
      [k \in DOMAIN peaks |-> RightIp(x, peaks[k])]>>

\* ------------------------------------------------------------- get_peaks
ValueError == [status |-> "error", error |-> "ValueError"]

get_peaks(second_deriv, threshold) ==
    LET d2ydx2_spl_upsidedown == Upsidedown(second_deriv.d2y)
    IN  IF Len(d2ydx2_spl_upsidedown) = 0
        THEN ValueError
        ELSE LET peaks_index == FindPeaks(d2ydx2_spl_upsidedown,
                                          threshold.num * SeqMax(d2ydx2_spl_upsidedown),
                                          threshold.den)
             IN  [status |-> "ok",
                  peaks_index |-> peaks_index,
                  deriv_x_peak_val |->
                      [k \in DOMAIN peaks_index |-> At(second_deriv.x, peaks_index[k])]]

\* -------------------------------------------- get_start_end_anchorpoints
\* start read from the left (lower index) positions, end from the right ones
get_start_end_swapped(peaks_index, second_deriv) ==
    LET d2ydx2_spl_upsidedown == Upsidedown(second_deriv.d2y)
        peak_wid == PeakWidths(d2ydx2_spl_upsidedown, peaks_index)
        width_endIdx == [k \in DOMAIN peaks_index |->
                            PyInt(At(peak_wid, 3)[k].num, At(peak_wid, 3)[k].den)]
        width_startIdx == [k \in DOMAIN peaks_index |->
                              PyInt(At(peak_wid, 2)[k].num, At(peak_wid, 2)[k].den)]
    IN  [status |-> "ok",
         wv_startIdx |-> [k \in DOMAIN peaks_index |-> At(second_deriv.x, width_startIdx[k])],
         wv_endIdx |-> [k \in DOMAIN peaks_index |-> At(second_deriv.x, width_endIdx[k])],
         width_startIdx |-> width_startIdx,
         width_endIdx |-> width_endIdx]

get_start_end_anchorpoints(peaks_index, second_deriv) ==
    LET d2ydx2_spl_upsidedown == Upsidedown(second_deriv.d2y)
        peak_wid == PeakWidths(d2ydx2_spl_upsidedown, peaks_index)
        width_endIdx == [k \in DOMAIN peaks_index |->
                            PyInt(At(peak_wid, 2)[k].num, At(peak_wid, 2)[k].den)]
        width_startIdx == [k \in DOMAIN peaks_index |->
                              PyInt(At(peak_wid, 3)[k].num, At(peak_wid, 3)[k].den)]
    IN  [status |-> "ok",
         wv_startIdx |-> [k \in DOMAIN peaks_index |-> At(second_deriv.x, width_startIdx[k])],
         wv_endIdx |-> [k \in DOMAIN peaks_index |-> At(second_deriv.x, width_endIdx[k])],
         width_startIdx |-> width_startIdx,
         width_endIdx |-> width_endIdx]

\* ------------------------------------------------ get_smaller_peak_width
get_smaller_peak_width(deriv_x_peak_val, wv_startIdx, wv_endIdx) ==
    [i \in DOMAIN deriv_x_peak_val |->
        LET left_wid == deriv_x_peak_val[i] - wv_startIdx[i]
            right_wid == wv_endIdx[i] - deriv_x_peak_val[i]
        IN  PyMin(left_wid, right_wid)]

\* ------------------------------------------------------ pandas DataFrame
\* a frame: its column names, its row labels (the index) and its rows
DataFrame(wavenumber, absorbance) ==
    [columns |-> <<"wavenumber", "absorbance">>,
     index |-> Range0(Len(wavenumber)),
     rows |-> [i \in DOMAIN wavenumber |->
                  [c \in {"wavenumber", "absorbance"} |->
                      IF c = "wavenumber" THEN wavenumber[i] ELSE absorbance[i]]]]

\* the rows at the given positions, in that order, with their labels
TakeRows(df, order) ==
    [columns |-> df.columns,
     index |-> [k \in DOMAIN order |-> df.index[order[k]]],
     rows |-> [k \in DOMAIN order |-> df.rows[order[k]]]]

\* no row dropped
keep_duplicates(df) == df

\* drop_duplicates(): the first occurrence of every row is kept
drop_duplicates(df) ==
    TakeRows(df, SelectSeq([i \in DOMAIN df.rows |-> i],
                           LAMBDA i : \A j \in 1..(i - 1) : df.rows[j] # df.rows[i]))

\* the orders an ascending sort on the keys may produce: the default sort
\* (quicksort) is not stable, so equal keys come out in any order
RECURSIVE SortedOrders(_, _)
SortedOrders(key, S) ==
    IF S = {}
    THEN {<< >>}
    ELSE LET least == {i \in S : \A j \in S : key[i] <= key[j]}
         IN  UNION {{<<i>> \o t : t \in SortedOrders(key, S \ {i})} : i \in least}

\* sort_values(by=...): the set of frames the sort may return
sort_values(df, by) ==
    {TakeRows(df, order) :
        order \in SortedOrders([i \in DOMAIN df.rows |-> df.rows[i][by]], DOMAIN df.rows)}

\* reset_index(): the old labels become a column ("index", or "level_0" when
\* "index" is taken), the new labels are 0..n-1
reset_index(df) ==
    LET taken == {df.columns[i] : i \in DOMAIN df.columns}
        name == IF "index" \notin taken THEN "index" ELSE "level_0"
    IN  IF name \in taken
        THEN ValueError
        ELSE [status |-> "ok",
              df |-> [columns |-> <<name>> \o df.columns,
                      index |-> Range0(Len(df.rows)),
                      rows |-> [i \in DOMAIN df.rows |->
                                   [c \in taken \cup {name} |->
                                       IF c = name THEN df.index[i] ELSE df.rows[i][c]]]]]

\* ---------------------------------------------------- get_peaks_absorbance
range_width == 2

\* idxmax(): the first position of the largest value
IdxMax(s) == CHOOSE i \in DOMAIN s :
                 /\ \A j \in DOMAIN s : s[j] <= s[i]
                 /\ \A j \in 1..(i - 1) : s[j] < s[i]

get_peaks_absorbance(deriv_x_peak_val, x_wavenb, y_corr_abs) ==
    LET within(peak_val) ==
            SelectSeq([i \in DOMAIN x_wavenb |-> i],
                      LAMBDA i : PyAbs(x_wavenb[i] - peak_val) <= range_width * Scale)
        best(peak_val) ==
            within(peak_val)[IdxMax([k \in DOMAIN within(peak_val) |->
                                        y_corr_abs[within(peak_val)[k]]])]
    IN  IF \E k \in DOMAIN deriv_x_peak_val : Len(within(deriv_x_peak_val[k])) = 0
        THEN ValueError
        ELSE [status |-> "ok",
              peak_wavenumber |-> [k \in DOMAIN deriv_x_peak_val |->
                                      x_wavenb[best(deriv_x_peak_val[k])]],
              peak_absorbance |-> [k \in DOMAIN deriv_x_peak_val |->
                                      y_corr_abs[best(deriv_x_peak_val[k])]]]

\* -------------------------------------------------- get_all_anchor_points
\* np.argmin: the first position of the smallest value, scanning upwards
RECURSIVE ArgMinFrom(_, _, _)
ArgMinFrom(d, i, best) ==
    IF i > Len(d) THEN best
    ELSE IF d[i] < d[best] THEN ArgMinFrom(d, i + 1, i)
    ELSE ArgMinFrom(d, i + 1, best)

\* the last position of the smallest value instead of the first
RECURSIVE ArgMinLastFrom(_, _, _)
ArgMinLastFrom(d, i, best) ==
    IF i > Len(d) THEN best
    ELSE IF d[i] <= d[best] THEN ArgMinLastFrom(d, i + 1, i)
    ELSE ArgMinLastFrom(d, i + 1, best)

ArgMinLast(d) == ArgMinLastFrom(d, 2, 1)

ArgMin(d) == ArgMinFrom(d, 2, 1)

\* the distance scaled by the factor instead of the width
IsAnchorPointScaledDistance(deriv_x_peak_val, smaller_peak_wid, raw_point, adj_factor) ==
    LET dist_peak_to_anchor ==
            [k \in DOMAIN deriv_x_peak_val |-> PyAbs(deriv_x_peak_val[k] - raw_point)]
        closest_peak_idx == ArgMin(dist_peak_to_anchor)
    IN  PyAbs(deriv_x_peak_val[closest_peak_idx] - raw_point) * adj_factor
            > smaller_peak_wid[closest_peak_idx]

\* the test of line 132 for one raw sample
IsAnchorPoint(deriv_x_peak_val, smaller_peak_wid, raw_point, adj_factor) ==
    LET dist_peak_to_anchor ==
            [k \in DOMAIN deriv_x_peak_val |-> PyAbs(deriv_x_peak_val[k] - raw_point)]
        closest_peak_idx == ArgMin(dist_peak_to_anchor)
    IN  PyAbs(deriv_x_peak_val[closest_peak_idx] - raw_point)
            > smaller_peak_wid[closest_peak_idx] * adj_factor

\* the set of outcomes of one call (the sort's tie order is not determined)
get_all_anchor_points(wv_startIdx, wv_endIdx, deriv_x_peak_val, anchor_points_raw_data, y_corr_abs, adj_factor, show_plot) ==
    LET smaller_peak_wid == get_smaller_peak_width(deriv_x_peak_val, wv_startIdx, wv_endIdx)
        kept == SelectSeq([i \in DOMAIN anchor_points_raw_data |-> i],
                          LAMBDA i : IsAnchorPoint(deriv_x_peak_val, smaller_peak_wid,
                                                   anchor_points_raw_data[i], adj_factor))
        post_process_anchor_points == [k \in DOMAIN kept |-> anchor_points_raw_data[kept[k]]]
        post_process_anchor_points_abs == [k \in DOMAIN kept |-> y_corr_abs[kept[k]]]
        post_process_anchor_data ==
            drop_duplicates(DataFrame(post_process_anchor_points,
                                      post_process_anchor_points_abs))
    IN  IF Len(anchor_points_raw_data) > 0 /\ Len(deriv_x_peak_val) = 0
        THEN {ValueError}
        ELSE IF show_plot /\ get_peaks_absorbance(deriv_x_peak_val, anchor_points_raw_data,
                                                  y_corr_abs).status = "error"
        THEN {ValueError}
        ELSE {[status |-> "ok",
               post_process_anchor_points |-> post_process_anchor_points,
               post_process_anchor_points_abs |-> post_process_anchor_points_abs,
               anchor_data_sorted |-> reset_index(sorted).df] :
                  sorted \in sort_values(post_process_anchor_data, "wavenumber")}

\* lines 138-139 applied to a frame: drop_duplicates, sort_values, reset_index
PostProcess(df) ==
    {reset_index(sorted) : sorted \in sort_values(drop_duplicates(df), "wavenumber")}

\* --------------------------------------------------------- baseline_spline
\* np.linspace(start, stop, num): sample j is (start*(num-1) + j*(stop-start)) / (num-1);
\* the samples are kept as numerators over num - 1
NumSamples == 1000

Linspace(start, stop, num) ==
    [j \in 1..num |-> start * (num - 1) + (j - 1) * (stop - start)]

\* as many points as the degree taken for enough
SplineFitsOnDegreePoints(x, degree, smooth) ==
    /\ IF smooth > 0
       THEN \A i \in 1..(Len(x) - 1) : x[i + 1] - x[i] >= 0
       ELSE \A i \in 1..(Len(x) - 1) : x[i + 1] - x[i] > 0
    /\ 1 <= degree /\ degree <= 5
    /\ smooth >= 0
    /\ Len(x) >= degree

\* what UnivariateSpline(x, y, k=degree, s=smooth) accepts
SplineFits(x, degree, smooth) ==
    /\ IF smooth > 0
       THEN \A i \in 1..(Len(x) - 1) : x[i + 1] - x[i] >= 0
       ELSE \A i \in 1..(Len(x) - 1) : x[i + 1] - x[i] > 0
    /\ 1 <= degree /\ degree <= 5
    /\ smooth >= 0
    /\ Len(x) > degree

baseline_spline(anchor_points, degree, smooth) ==
    LET wavenumber == [i \in DOMAIN anchor_points.rows |-> anchor_points.rows[i]["wavenumber"]]
    IN  IF ~SplineFits(wavenumber, degree, smooth)
        THEN ValueError
        ELSE [status |-> "ok",
              baseline_curve |->
                  [wavenumber |-> Linspace(PyInt(SeqMin(wavenumber), Scale),
                                           PyInt(SeqMax(wavenumber), Scale), NumSamples)]]

\* ================================================================ state
VARIABLES
    call,                    \* the function the caller is about to run
    second_deriv, threshold, \* arguments of get_peaks
    peaks,                   \* what get_peaks returned
    widths,                  \* what get_start_end_anchorpoints returned
    wv_startIdx, wv_endIdx, deriv_x_peak_val,
    anchor_points_raw_data, y_corr_abs, adj_factor, show_plot,
                             \* arguments of get_all_anchor_points
    anchor_data,             \* what get_all_anchor_points returned
    again,                   \* what post-processing the returned table gave
    anchor_points, degree, smooth, \* arguments of baseline_spline
    baseline                 \* what baseline_spline returned

vars == <<call, second_deriv, threshold, peaks, widths, wv_startIdx, wv_endIdx,
          deriv_x_peak_val, anchor_points_raw_data, y_corr_abs, adj_factor, show_plot,
          anchor_data, again, anchor_points, degree, smooth, baseline>>

curve_vars == <<second_deriv, threshold>>
filter_args == <<wv_startIdx, wv_endIdx, deriv_x_peak_val, anchor_points_raw_data,
                 y_corr_abs, adj_factor, show_plot>>
spline_args == <<anchor_points, degree, smooth>>

NotRun == [status |-> "none"]

\* ------------------------------------------------------------ the inputs
SeqsUpTo(S, n) == UNION {[1..k -> S] : k \in 0..n}

\* sampled second derivatives: wavenumbers one step apart, in either order
XGrid(n, order) == [i \in 1..n |-> IF order = "ascending" THEN i - 1 ELSE n - i]

Curves == {[d2y |-> y, x |-> XGrid(Len(y), order)] :
              y \in SeqsUpTo((-MaxY)..MaxY, MaxLen), order \in {"ascending", "descending"}}

\* the default threshold 0.15, and 1
Thresholds == {[num |-> 15, den |-> 100], [num |-> 1, den |-> 1]}

Wavenumbers == 0..MaxWn
Absorbances == 0..MaxAbs
RawSpectra == SeqsUpTo(Wavenumbers \X Absorbances, MaxRaw)

\* peak wavenumbers: at the low end of the spectrum, inside it, and farther
\* from every sample than get_peaks_absorbance looks
PeakWavenumbers == {0, MaxWn - 1, MaxWn + range_width * Scale + 1}

\* a peak with its distances to the start and to the end wavenumber
PeakShapes == {[peak |-> p, start |-> p - l, end |-> p + r] :
                  p \in PeakWavenumbers, l \in (-1)..MaxWidth, r \in 0..MaxWidth}
\* the peaks of one curve lie at different wavenumbers
PeakLists == {pl \in SeqsUpTo(PeakShapes, MaxPeaks) :
                 \A i, j \in DOMAIN pl : i # j => pl[i].peak # pl[j].peak}

AdjFactors == 0..MaxAdj

EmptyFrame == DataFrame(<< >>, << >>)

AnchorTables == {DataFrame([i \in DOMAIN t |-> t[i][1]], [i \in DOMAIN t |-> t[i][2]]) :
                    t \in SeqsUpTo(Wavenumbers \X {0}, MaxRows)}

NoCurve == /\ second_deriv = [d2y |-> << >>, x |-> << >>]
           /\ threshold = [num |-> 15, den |-> 100]
NoFilterArgs == /\ wv_startIdx = << >> /\ wv_endIdx = << >> /\ deriv_x_peak_val = << >>
                /\ anchor_points_raw_data = << >> /\ y_corr_abs = << >>
                /\ adj_factor = 1 /\ show_plot = TRUE
NoSplineArgs == anchor_points = EmptyFrame /\ degree = 3 /\ smooth = 0
NothingRun == /\ peaks = NotRun /\ widths = NotRun /\ anchor_data = NotRun
              /\ again = NotRun /\ baseline = NotRun

InitPeaks ==
    /\ call = "get_peaks"
    /\ second_deriv \in Curves
    /\ threshold \in Thresholds
    /\ NoFilterArgs /\ NoSplineArgs /\ NothingRun

InitFilter ==
    /\ call = "get_all_anchor_points"
    /\ \E pl \in PeakLists, raw \in RawSpectra :
        /\ deriv_x_peak_val = [k \in DOMAIN pl |-> pl[k].peak]
        /\ wv_startIdx = [k \in DOMAIN pl |-> pl[k].start]
        /\ wv_endIdx = [k \in DOMAIN pl |-> pl[k].end]
        /\ anchor_points_raw_data = [i \in DOMAIN raw |-> raw[i][1]]
        /\ y_corr_abs = [i \in DOMAIN raw |-> raw[i][2]]
    /\ adj_factor \in AdjFactors
    /\ show_plot \in BOOLEAN
    /\ NoCurve /\ NoSplineArgs /\ NothingRun

InitSpline ==
    /\ call = "baseline_spline"
    /\ anchor_points \in AnchorTables
    /\ degree \in 1..MaxDegree
    /\ smooth \in 0..MaxSmooth
    /\ NoCurve /\ NoFilterArgs /\ NothingRun

Init == InitPeaks \/ InitFilter \/ InitSpline

\* ---------------------------------------------------------- the actions
GetPeaks ==
    /\ call = "get_peaks" /\ peaks = NotRun
    /\ peaks' = get_peaks(second_deriv, threshold)
    /\ UNCHANGED <<call, curve_vars, widths, filter_args, anchor_data, again,
                   spline_args, baseline>>

GetStartEndAnchorpoints ==
    /\ call = "get_peaks" /\ peaks.status = "ok" /\ widths = NotRun
    /\ widths' = get_start_end_anchorpoints(peaks.peaks_index, second_deriv)
    /\ UNCHANGED <<call, curve_vars, peaks, filter_args, anchor_data, again,
                   spline_args, baseline>>

\* the caller hands the peaks and their widths on, with the spectrum sampled
\* on the curve's wavenumbers
PassPeaks ==
    /\ call = "get_peaks" /\ widths.status = "ok"
    /\ call' = "get_all_anchor_points"
    /\ wv_startIdx' = widths.wv_startIdx
    /\ wv_endIdx' = widths.wv_endIdx
    /\ deriv_x_peak_val' = peaks.deriv_x_peak_val
    /\ anchor_points_raw_data' = second_deriv.x
    /\ y_corr_abs' = Upsidedown(second_deriv.d2y)
    /\ adj_factor' \in AdjFactors
    /\ show_plot' \in BOOLEAN
    /\ UNCHANGED <<curve_vars, peaks, widths, anchor_data, again, spline_args, baseline>>

GetAllAnchorPoints ==
    /\ call = "get_all_anchor_points" /\ anchor_data = NotRun
    /\ anchor_data' \in get_all_anchor_points(wv_startIdx, wv_endIdx, deriv_x_peak_val,
                                              anchor_points_raw_data, y_corr_abs,
                                              adj_factor, show_plot)
    /\ UNCHANGED <<call, curve_vars, peaks, widths, filter_args, again,
                   spline_args, baseline>>

\* the post-processing run once more, on the table it produced
PostProcessAgain ==
    /\ call = "get_all_anchor_points" /\ anchor_data.status = "ok" /\ again = NotRun
    /\ again' \in PostProcess(anchor_data.anchor_data_sorted)
    /\ UNCHANGED <<call, curve_vars, peaks, widths, filter_args, anchor_data,
                   spline_args, baseline>>

\* at the end of a pipeline run the caller hands the anchor table on, with
\* the default smoothing
PassAnchors ==
    /\ call = "get_all_anchor_points" /\ anchor_data.status = "ok" /\ again = NotRun
    /\ widths.status = "ok"
    /\ call' = "baseline_spline"
    /\ anchor_points' = anchor_data.anchor_data_sorted
    /\ degree' \in {1, 3}
    /\ smooth' = 0
    /\ UNCHANGED <<curve_vars, peaks, widths, filter_args, anchor_data, again, baseline>>

BaselineSpline ==
    /\ call = "baseline_spline" /\ baseline = NotRun
    /\ baseline' = baseline_spline(anchor_points, degree, smooth)
    /\ UNCHANGED <<call, curve_vars, peaks, widths, filter_args, anchor_data, again,
                   spline_args>>

Next ==
    \/ GetPeaks
    \/ GetStartEndAnchorpoints
    \/ PassPeaks
    \/ GetAllAnchorPoints
    \/ PostProcessAgain
    \/ PassAnchors
    \/ BaselineSpline

Spec == Init /\ [][Next]_vars

\* get_peaks and get_start_end_anchorpoints on their own
NextPeaks == GetPeaks \/ GetStartEndAnchorpoints

SpecPeaks == InitPeaks /\ [][NextPeaks]_vars

\* baseline_spline on its own
SpecSpline == InitSpline /\ [][BaselineSpline]_vars

\* =============================================================== claims
\* the (wavenumber, absorbance) pairs of a frame's rows, in row order
Pairs(df) == [i \in DOMAIN df.rows |-> <<df.rows[i]["wavenumber"], df.rows[i]["absorbance"]>>]

RawPairs == [i \in DOMAIN anchor_points_raw_data |->
                <<anchor_points_raw_data[i], y_corr_abs[i]>>]

SetOf(s) == {s[i] : i \in DOMAIN s}

NoRepeats(s) == \A i, j \in DOMAIN s : i # j => s[i] # s[j]

Ascending(s) == \A i \in 1..(Len(s) - 1) : s[i][1] <= s[i + 1][1]

StrictlyAscending(s) == \A i \in 1..(Len(s) - 1) : s[i][1] < s[i + 1][1]

FilterRan == anchor_data # NotRun
FilterOk == anchor_data.status = "ok"

\* C1: with no peaks and a non-empty raw spectrum the filter does not fail, and
\* its table is the whole raw spectrum without duplicate pairs, sorted by
\* ascending wavenumber.
C1_ZeroPeakDegeneracy ==
    (FilterRan /\ Len(deriv_x_peak_val) = 0 /\ Len(anchor_points_raw_data) > 0)
        => /\ FilterOk
           /\ SetOf(Pairs(anchor_data.anchor_data_sorted)) = SetOf(RawPairs)
           /\ NoRepeats(Pairs(anchor_data.anchor_data_sorted))
           /\ Ascending(Pairs(anchor_data.anchor_data_sorted))

\* the peak the rule names for a raw wavenumber: nearest, lowest index on ties
NearestPeak(w) ==
    CHOOSE p \in DOMAIN deriv_x_peak_val :
        /\ \A q \in DOMAIN deriv_x_peak_val :
               PyAbs(deriv_x_peak_val[p] - w) <= PyAbs(deriv_x_peak_val[q] - w)
        /\ \A q \in 1..(p - 1) :
               PyAbs(deriv_x_peak_val[q] - w) > PyAbs(deriv_x_peak_val[p] - w)

SmallerOf(a, b) == IF a <= b THEN a ELSE b

\* the rule of the claim for raw sample i under adjustment factor a
RuleSaysAnchor(i, a) ==
    LET w == anchor_points_raw_data[i]
        p == NearestPeak(w)
    IN  PyAbs(deriv_x_peak_val[p] - w)
            > SmallerOf(deriv_x_peak_val[p] - wv_startIdx[p],
                        wv_endIdx[p] - deriv_x_peak_val[p]) * a

RuleAnchors(a) == {i \in DOMAIN anchor_points_raw_data : RuleSaysAnchor(i, a)}
RuleExcluded(a) == {i \in DOMAIN anchor_points_raw_data : ~RuleSaysAnchor(i, a)}

RECURSIVE InOrder(_, _)
InOrder(S, n) ==
    IF n = 0 THEN << >>
    ELSE IF n \in S THEN Append(InOrder(S, n - 1), n) ELSE InOrder(S, n - 1)

\* C2: with at least one peak every raw sample is classified exactly once, as
\* an anchor exactly when its distance to the nearest peak (lowest index among
\* equidistant peaks) exceeds that peak's smaller width times the adjustment
\* factor; anchors before deduplication plus excluded samples make up the raw
\* spectrum.
C2_ClassificationRule ==
    (FilterOk /\ Len(deriv_x_peak_val) >= 1)
        => LET chosen == InOrder(RuleAnchors(adj_factor), Len(anchor_points_raw_data))
           IN  /\ anchor_data.post_process_anchor_points
                     = [k \in DOMAIN chosen |-> anchor_points_raw_data[chosen[k]]]
               /\ anchor_data.post_process_anchor_points_abs
                     = [k \in DOMAIN chosen |-> y_corr_abs[chosen[k]]]
               /\ Len(anchor_data.post_process_anchor_points)
                     + Cardinality(RuleExcluded(adj_factor))
                     = Len(anchor_points_raw_data)

\* a run where a sample lies equally far from two peaks that classify it
\* differently, with an anchor and an excluded sample
C2_Witness ==
    /\ FilterOk
    /\ Len(deriv_x_peak_val) = 2
    /\ RuleAnchors(adj_factor) # {} /\ RuleExcluded(adj_factor) # {}
    /\ \E i \in DOMAIN anchor_points_raw_data :
          LET w == anchor_points_raw_data[i]
              sw == get_smaller_peak_width(deriv_x_peak_val, wv_startIdx, wv_endIdx)
          IN  /\ PyAbs(deriv_x_peak_val[1] - w) = PyAbs(deriv_x_peak_val[2] - w)
              /\ PyAbs(deriv_x_peak_val[1] - w) > sw[1] * adj_factor
              /\ ~(PyAbs(deriv_x_peak_val[2] - w) > sw[2] * adj_factor)

\* ---------------------------------------------------------------- C3
Inverted == Upsidedown(second_deriv.d2y)

SetMin(S) == CHOOSE m \in S : \A v \in S : m <= v
SetMax(S) == CHOOSE m \in S : \A v \in S : v <= m

\* the level at which the peak at index pk has lost all its prominence: the
\* higher of the lowest points of the stretches, left and right of the peak,
\* that stay at or below the peak
BaseLevel(pk) ==
    LET below(i, j) == \A n \in i..j : At(Inverted, n) <= At(Inverted, pk)
        lmin == SetMin({At(Inverted, i) : i \in {i \in 0..pk : below(i, pk)}})
        rmin == SetMin({At(Inverted, i) :
                           i \in {i \in pk..(Len(Inverted) - 1) : below(pk, i)}})
    IN  IF lmin >= rmin THEN lmin ELSE rmin

\* the last sample index at or before the curve's crossing of the base level
\* below the peak, and the same above the peak
LowerBoundary(pk) ==
    SetMax({i \in 0..(pk - 1) : At(Inverted, i) <= BaseLevel(pk)})

UpperBoundary(pk) ==
    LET reach == SetMin({i \in (pk + 1)..(Len(Inverted) - 1) :
                            At(Inverted, i) <= BaseLevel(pk)})
    IN  IF At(Inverted, reach) = BaseLevel(pk) THEN reach ELSE reach - 1

XAscending == \A i \in 1..(Len(second_deriv.x) - 1) : second_deriv.x[i] < second_deriv.x[i + 1]

WidthsOk == widths.status = "ok"

\* C3 as stated: the start wavenumber is the curve's x at the truncated lower
\* index boundary and the end wavenumber the x at the truncated upper index
\* boundary, so start index <= peak index <= end index; on ascending
\* wavenumbers a single peak lies strictly between its start and its end.
C3_StartLowerEndUpper ==
    WidthsOk =>
        /\ \A k \in DOMAIN peaks.peaks_index :
              LET pk == peaks.peaks_index[k]
              IN  /\ widths.wv_startIdx[k] = At(second_deriv.x, LowerBoundary(pk))
                  /\ widths.wv_endIdx[k] = At(second_deriv.x, UpperBoundary(pk))
                  /\ widths.width_startIdx[k] <= pk /\ pk <= widths.width_endIdx[k]
        /\ (XAscending /\ Len(peaks.peaks_index) = 1)
              => /\ widths.wv_startIdx[1] < peaks.deriv_x_peak_val[1]
                 /\ peaks.deriv_x_peak_val[1] < widths.wv_endIdx[1]

\* C3 as the code has it: the start wavenumber is the x at the truncated UPPER
\* index boundary and the end wavenumber the x at the truncated LOWER index
\* boundary, so end index < peak index <= start index; on ascending wavenumbers
\* every peak has end < peak wavenumber <= start.
C3_StartUpperEndLower ==
    WidthsOk =>
        \A k \in DOMAIN peaks.peaks_index :
            LET pk == peaks.peaks_index[k]
            IN  /\ widths.wv_startIdx[k] = At(second_deriv.x, UpperBoundary(pk))
                /\ widths.wv_endIdx[k] = At(second_deriv.x, LowerBoundary(pk))
                /\ widths.width_endIdx[k] < pk /\ pk <= widths.width_startIdx[k]
                /\ XAscending => /\ widths.wv_endIdx[k] < peaks.deriv_x_peak_val[k]
                                 /\ peaks.deriv_x_peak_val[k] <= widths.wv_startIdx[k]

\* the widths of a single peak on ascending wavenumbers, the end below the
\* peak and the start above it
C3_Witness ==
    /\ WidthsOk /\ XAscending
    /\ Len(peaks.peaks_index) = 1
    /\ widths.wv_endIdx[1] < peaks.deriv_x_peak_val[1]
    /\ peaks.deriv_x_peak_val[1] < widths.wv_startIdx[1]

\* ---------------------------------------------------------------- C4
\* C4: with at least one peak the returned table has no two rows with the same
\* (wavenumber, absorbance) pair, is ordered by non-decreasing wavenumber, has
\* only pairs of the raw spectrum, and its row labels are 0, 1, 2, ...
C4_CollectionInvariant ==
    (FilterOk /\ Len(deriv_x_peak_val) >= 1)
        => LET t == anchor_data.anchor_data_sorted
           IN  /\ NoRepeats(Pairs(t))
               /\ Ascending(Pairs(t))
               /\ SetOf(Pairs(t)) \subseteq SetOf(RawPairs)
               /\ Len(t.index) = Len(t.rows)
               /\ \A i \in DOMAIN t.index : t.index[i] = i - 1

\* a run whose anchors arrived in descending order and were sorted
C4_Witness ==
    /\ FilterOk /\ Len(deriv_x_peak_val) >= 1
    /\ Len(anchor_data.anchor_data_sorted.rows) = 2
    /\ anchor_data.post_process_anchor_points[1] > anchor_data.post_process_anchor_points[2]
    /\ anchor_data.anchor_data_sorted.rows[1]["index"] = 1

\* ---------------------------------------------------------------- C5
\* C5: the wavenumbers of the returned table are strictly ascending, whatever
\* the raw spectrum.
C5_StrictlyAscending ==
    FilterOk => StrictlyAscending(Pairs(anchor_data.anchor_data_sorted))

\* ---------------------------------------------------------------- C6
\* the anchor pairs the filter returns for the same arguments with factor a
AnchorsWith(a) ==
    LET out == CHOOSE o \in get_all_anchor_points(wv_startIdx, wv_endIdx, deriv_x_peak_val,
                                                  anchor_points_raw_data, y_corr_abs,
                                                  a, show_plot) : TRUE
    IN  SetOf(Pairs(out.anchor_data_sorted))

AnchorsReturned == SetOf(Pairs(anchor_data.anchor_data_sorted))

ShrinksWithFactor ==
    \A a \in AdjFactors :
        /\ a >= adj_factor => AnchorsWith(a) \subseteq AnchorsReturned
        /\ a <= adj_factor => AnchorsReturned \subseteq AnchorsWith(a)

\* C6 as stated: for fixed peaks, widths and raw spectrum a larger adjustment
\* factor gives a subset of the anchors a smaller one gives.
C6_FactorMonotone == FilterOk => ShrinksWithFactor

\* no peak has a negative smaller width
StartBelowEndAbove ==
    \A k \in DOMAIN deriv_x_peak_val :
        wv_startIdx[k] <= deriv_x_peak_val[k] /\ deriv_x_peak_val[k] <= wv_endIdx[k]

\* C6 as the code has it: the same, when the smaller of the two factors is
\* positive or no peak has its start above or its end below its wavenumber.
C6_FactorMonotoneGuarded ==
    FilterOk =>
        \A a \in AdjFactors :
            /\ (a >= adj_factor /\ (adj_factor > 0 \/ StartBelowEndAbove))
                  => AnchorsWith(a) \subseteq AnchorsReturned
            /\ (a <= adj_factor /\ (a > 0 \/ StartBelowEndAbove))
                  => AnchorsReturned \subseteq AnchorsWith(a)

\* a run on such peaks where a larger factor drops an anchor
C6_Witness ==
    /\ FilterOk /\ StartBelowEndAbove /\ Len(deriv_x_peak_val) >= 1
    /\ \E a \in AdjFactors :
          /\ a > adj_factor
          /\ AnchorsWith(a) # {}
          /\ AnchorsWith(a) # AnchorsReturned
          /\ AnchorsWith(a) \subseteq AnchorsReturned

\* ---------------------------------------------------------------- C7
\* C7: post-processing the returned table once more returns that table.
C7_PostProcessIdempotent ==
    again # NotRun => /\ again.status = "ok"
                      /\ again.df = anchor_data.anchor_data_sorted

\* ---------------------------------------------------------------- C8
SplineRan == baseline # NotRun

AnchorWavenumbers ==
    [i \in DOMAIN anchor_points.rows |-> anchor_points.rows[i]["wavenumber"]]

\* t is the whole number the non-negative fixed-point wavenumber w truncates to
TruncatesTo(w, t) == t * Scale <= w /\ w < (t + 1) * Scale

\* 1000 uniformly spaced samples from the truncated least to the truncated
\* greatest anchor wavenumber (samples are numerators over 999)
GridAsClaimed ==
    /\ baseline.status = "ok"
    /\ LET g == baseline.baseline_curve.wavenumber
       IN  /\ Len(g) = 1000
           /\ \A j \in 1..(Len(g) - 1) : g[j + 1] - g[j] = g[2] - g[1]
           /\ \E t \in 0..MaxWn : TruncatesTo(SetMin(SetOf(AnchorWavenumbers)), t) /\ g[1] = 999 * t
           /\ \E t \in 0..MaxWn : TruncatesTo(SetMax(SetOf(AnchorWavenumbers)), t) /\ g[1000] = 999 * t

\* C8 as stated: with at least degree+1 rows the call returns the grid, with
\* fewer it fails.
C8_BaselineOutcome ==
    SplineRan => IF Len(anchor_points.rows) >= degree + 1
                 THEN GridAsClaimed
                 ELSE baseline.status = "error"

\* the row order the spline fit accepts: strictly increasing wavenumbers, or
\* non-decreasing ones when the smoothing factor is positive
FitOrder ==
    \A i \in 1..(Len(AnchorWavenumbers) - 1) :
        \/ AnchorWavenumbers[i] < AnchorWavenumbers[i + 1]
        \/ smooth > 0 /\ AnchorWavenumbers[i] = AnchorWavenumbers[i + 1]

\* C8 as the code has it: for a degree from 1 to 5 the call returns the grid
\* when the table has at least degree+1 rows in fit order, and fails otherwise.
C8_BaselineOutcomeInFitOrder ==
    (SplineRan /\ degree \in 1..5 /\ smooth >= 0)
        => IF Len(anchor_points.rows) >= degree + 1 /\ FitOrder
           THEN GridAsClaimed
           ELSE baseline.status = "error"

\* a fit whose least wavenumber is not whole and whose grid has a span
C8_Witness ==
    /\ SplineRan /\ baseline.status = "ok"
    /\ Len(anchor_points.rows) = degree + 1
    /\ SetMin(SetOf(AnchorWavenumbers)) % Scale # 0
    /\ baseline.baseline_curve.wavenumber[1] # baseline.baseline_curve.wavenumber[1000]

\* ---------------------------------------------------------------- C9
\* C9: get_peaks on a zero-length curve and the filter on a zero-length raw
\* spectrum each end in an error.
C9_EmptyInputSignaled ==
    /\ (peaks # NotRun /\ Len(second_deriv.d2y) = 0) => peaks.status = "error"
    /\ (FilterRan /\ Len(anchor_points_raw_data) = 0) => anchor_data.status = "error"

\* --------------------------------------------------------------- C10
\* C10: the filter has the same outcomes with the plot flag on as with it off.
C10_PlotIndependent ==
    FilterRan =>
        get_all_anchor_points(wv_startIdx, wv_endIdx, deriv_x_peak_val,
                              anchor_points_raw_data, y_corr_abs, adj_factor, TRUE)
        = get_all_anchor_points(wv_startIdx, wv_endIdx, deriv_x_peak_val,
                                anchor_points_raw_data, y_corr_abs, adj_factor, FALSE)

====
